---------------------------- MODULE Spec2Model ----------------------------
(***************************************************************************)
(* A model of rs_map_reduce (src/src/main.py): PathInputData,              *)
(* GenericWorker.create_workers, LineCountWorker, execute and mapreduce.   *)
(*                                                                         *)
(* One behaviour is one call mapreduce(worker_class, PathInputData,        *)
(* config).  The main thread enumerates the directory and builds the       *)
(* workers, starts one thread per worker, joins them in order, and folds   *)
(* the results into the first worker.  Every map thread takes two steps:   *)
(* the read of its input and the store of the count into result.           *)
(***************************************************************************)
EXTENDS Integers, Sequences, FiniteSets

\* Largest number of entries os.listdir returns in the model.
MaxEntries == 3

\* Largest number of calls made on the workers by a caller that calls map
\* and reduce itself.
MaxCalls == 4

\* The file contents the model draws from, as sequences of characters with
\* "\n" the line separator: one line without a separator, and the files of
\* the test fixture with two, three and four terminated lines.
Contents ==
    { <<"a">>,
      <<"a", "\n", "a", "\n">>,
      <<"a", "\n", "a", "\n", "a", "\n">>,
      <<"a", "\n", "a", "\n", "a", "\n", "a", "\n">> }

\* What a directory entry can be.  A "file" is a readable regular file; a
\* "dir" is a subdirectory; "missing" is a name that no longer resolves when
\* it is opened (a dangling link, a file removed after the listing); a "fifo"
\* is an entry whose open() never returns.
Entries ==
    [kind : {"file"}, content : Contents]
        \cup [kind : {"dir", "missing", "fifo"}, content : {<<>>}]

\* The worker classes: LineCountWorker, and a subclass of it whose reduce is
\* subtraction, an operation that is neither commutative nor associative.
WorkerClasses == {"LineCountWorker", "DiffWorker"}

\* The configurations: with and without the key data_dir.
Configs == SUBSET {"data_dir"}

\* Python's None and an int value, as the content of a result slot.
None == [some |-> FALSE, v |-> 0]

Some(v) == [some |-> TRUE, v |-> v]

\* How a call ends: not yet, by returning a value, or by raising.
Running == [kind |-> "running", val |-> None, err |-> ""]

Return(val) == [kind |-> "return", val |-> val, err |-> ""]

Raise(err) == [kind |-> "raise", val |-> None, err |-> err]

VARIABLES
    config,        \* the keys of the config dict (main.py:83, 209)
    listing,       \* os.listdir(data_dir), in its order, with what each name is (main.py:84)
    worker_class,  \* the class create_workers is called on (main.py:210)
    workers,       \* the list of workers: [input_data, result] (main.py:109-110, 145-148)
    pc,            \* where the main thread is in create_workers and execute
    i,             \* the position of the loop the main thread is in (main.py:146, 199, 201, 204)
    tstate,        \* per thread of threads (main.py:198): "new", "started",
                   \* "read", "blocked", "done", "failed"
    data,          \* per thread: the local variable data of map (main.py:171)
    outcome,       \* how mapreduce ended (main.py:211)
    mapCalls,      \* history: per worker, how many times its map was invoked
    written,       \* history: per worker, the threads that stored into its result in map
    reduceLog,     \* history: the reduce calls made, as <<accumulator, argument>>
    reduceRet      \* the value the last reduce call returned (main.py:185)

vars == <<config, listing, worker_class, workers, pc, i, tstate, data,
          outcome, mapCalls, written, reduceLog, reduceRet>>

RECURSIVE SeqsUpTo(_, _)
\* All sequences over S of length at most n.
SeqsUpTo(S, n) ==
    IF n = 0 THEN {<<>>}
    ELSE LET shorter == SeqsUpTo(S, n - 1)
         IN shorter \cup {Append(s, x) : s \in {t \in shorter : Len(t) = n - 1}, x \in S}

Listings == SeqsUpTo(Entries, MaxEntries)

N == Len(workers)

\* The values the variables take.
TypeOK ==
    /\ config \in Configs
    /\ listing \in Listings
    /\ worker_class \in WorkerClasses
    /\ N <= Len(listing)
    /\ \A w \in 1..N :
           /\ workers[w].input_data = w
           /\ workers[w].result.some \in BOOLEAN
           /\ workers[w].result.v \in Int
    /\ pc \in {"create", "start", "join", "unpack", "reduce", "done"}
    /\ i \in 1..(MaxEntries + 1)
    /\ DOMAIN tstate \in {{}, 1..N}
    /\ \A t \in DOMAIN tstate :
           tstate[t] \in {"new", "started", "read", "blocked", "done", "failed"}
    /\ DOMAIN data = DOMAIN tstate
    /\ \A t \in DOMAIN data : data[t] \in Contents \cup {<<>>}
    /\ outcome.kind \in {"running", "return", "raise"}
    /\ outcome.err \in {"", "KeyError", "ValueError", "TypeError"}
    /\ DOMAIN mapCalls = DOMAIN tstate
    /\ \A w \in DOMAIN mapCalls : mapCalls[w] \in 0..1
    /\ DOMAIN written = DOMAIN tstate
    /\ \A k \in DOMAIN reduceLog : reduceLog[k] \in (1..N) \X (1..N)
    /\ reduceRet.some \in BOOLEAN /\ reduceRet.v \in Int

----------------------------------------------------------------------------
\* A read that gives up on an entry it cannot open instead of blocking.
ReadOutcomeTimesOut(entry) ==
    CASE entry.kind = "file" -> "ok"
      [] entry.kind = "dir" -> "IsADirectoryError"
      [] entry.kind = "missing" -> "FileNotFoundError"
      [] entry.kind = "fifo" -> "TimeoutError"

\* PathInputData.read: what open(path).read() does on each kind of entry.
ReadOutcome(entry) ==
    CASE entry.kind = "file" -> "ok"
      [] entry.kind = "dir" -> "IsADirectoryError"
      [] entry.kind = "missing" -> "FileNotFoundError"
      [] entry.kind = "fifo" -> "blocks"

\* The number of lines as splitlines() counts them: a last line without a
\* separator counts too.
CountSplitLines(s) ==
    Cardinality({k \in DOMAIN s : s[k] = "\n"})
        + (IF s # <<>> /\ s[Len(s)] # "\n" THEN 1 ELSE 0)

RECURSIVE CountNewlines(_)
\* data.count('\n')
CountNewlines(s) ==
    IF s = <<>> THEN 0
    ELSE (IF Head(s) = "\n" THEN 1 ELSE 0) + CountNewlines(Tail(s))

\* Subtraction in every class.
OpMinus(cls, a, b) == a - b

\* The binary operation of a worker class's reduce.
Op(cls, a, b) ==
    IF cls = "LineCountWorker" THEN a + b ELSE a - b

\* The operands of the operation taken in the other order.
ReduceStepSwapped(cls, self, other) == Some(Op(cls, other.v, self.v))

\* self.result += other.result: the new self.result; None on either side is
\* a TypeError, which the action turns into the raise.
ReduceStep(cls, self, other) == Some(Op(cls, self.v, other.v))

\* A reduce that also stores the combination into the other worker.
ReduceEffectBoth(cls, ws, a, b) ==
    [ws EXCEPT ![a].result = ReduceStep(cls, ws[a].result, ws[b].result),
               ![b].result = ReduceStep(cls, ws[a].result, ws[b].result)]

\* The list of workers after ws[a].reduce(ws[b]) on two set results: only
\* self.result is assigned.
ReduceEffect(cls, ws, a, b) ==
    [ws EXCEPT ![a].result = ReduceStep(cls, ws[a].result, ws[b].result)]

\* A map that adds the count to the result it finds.
MapStoreAccumulate(old, count) ==
    IF old.some THEN Some(old.v + count) ELSE Some(count)

\* self.result = data.count('\n'): the new self.result, whatever the old.
MapStore(old, count) == Some(count)

\* An uncaught exception in one thread taken to end every running thread.
ThreadsAfterRaiseAll(ts, t) ==
    [k \in DOMAIN ts |->
        IF k = t \/ ts[k] \in {"started", "read"} THEN "failed" ELSE ts[k]]

\* The threads after thread t ended by an uncaught exception: the exception
\* ends the thread it was raised in and no other.
ThreadsAfterRaise(ts, t) == [ts EXCEPT ![t] = "failed"]

\* A start loop that waits for the thread before to end.
MayStartSerial(k) ==
    IF k = 1 THEN TRUE ELSE tstate[k - 1] \in {"done", "failed"}

\* thread.start() in the start loop waits for nothing.
MayStart(k) == TRUE

\* A lookup that takes a missing data_dir for an empty directory.
HasDataDirDefault(cfg) == TRUE

\* config['data_dir'] finds the key.
HasDataDir(cfg) == "data_dir" \in cfg

\* Every worker built on the first input.
NewWorkerFirst(k) == [input_data |-> 1, result |-> None]

\* cls(input_data) on the k-th input yielded: GenericWorker.__init__.
NewWorker(k) == [input_data |-> k, result |-> None]

\* create_workers as a function: the list of workers over the listing.
CreateWorkersList(lst) == [k \in 1..Len(lst) |-> NewWorker(k)]

\* Every thread bound to the last worker of the list, as a closure over the
\* loop variable would bind it.
TargetLast(t) == Len(workers)

\* The worker whose bound method thread t runs: Thread(target=w.map) for the
\* t-th w of workers.
Target(t) == t

\* A join that returns only for a thread whose map returned.
TerminatedOk(t) == tstate[t] = "done"

\* A join that does not wait for the thread.
JoinNoWait(t) == TRUE

\* thread.join() returns once the thread has ended, normally or by an
\* uncaught exception.
Terminated(t) == tstate[t] \in {"done", "failed"}

\* The first thread the join loop waits for, when only the last thread
\* started is joined.
JoinLastOnly == IF Len(workers) = 0 THEN 1 ELSE Len(workers)

\* The first thread the join loop waits for: the loop runs over all threads.
JoinFrom == 1

\* A mapreduce that calls execute and drops what it returns.
MapreduceNoReturn(o) == Return(None)

\* return execute(workers) in mapreduce: what execute returned is returned.
MapreduceReturn(o) == o

\* An empty list folded to a default value.
EmptyOutcomeDefault == Return(Some(0))

\* first, *rest = workers on an empty list.
EmptyOutcome == Raise("ValueError")

----------------------------------------------------------------------------
Init ==
    /\ config \in Configs
    /\ listing \in (IF "data_dir" \in config THEN Listings ELSE {<<>>})
    /\ worker_class \in WorkerClasses
    /\ workers = <<>>
    /\ pc = "create"
    /\ i = 1
    /\ tstate = <<>>
    /\ data = <<>>
    /\ outcome = Running
    /\ mapCalls = <<>>
    /\ written = <<>>
    /\ reduceLog = <<>>
    /\ reduceRet = None

\* generate_inputs: config['data_dir'] on a dict without the key.
ConfigError ==
    /\ pc = "create"
    /\ ~HasDataDir(config)
    /\ pc' = "done"
    /\ outcome' = Raise("KeyError")
    /\ UNCHANGED <<config, listing, worker_class, workers, i, tstate, data,
                   mapCalls, written, reduceLog,
                   reduceRet>>

\* One turn of the loop of create_workers: the generator yields the next
\* name of the listing, whatever it is, and a worker is built on it.
CreateWorker ==
    /\ pc = "create"
    /\ HasDataDir(config)
    /\ i <= Len(listing)
    /\ workers' = Append(workers, NewWorker(i))
    /\ i' = i + 1
    /\ UNCHANGED <<config, listing, worker_class, pc, tstate, data, outcome,
                   mapCalls, written, reduceLog,
                   reduceRet>>

\* create_workers returns; execute builds the list of threads.
CreateDone ==
    /\ pc = "create"
    /\ HasDataDir(config)
    /\ i > Len(listing)
    /\ pc' = "start"
    /\ i' = 1
    /\ tstate' = [t \in 1..N |-> "new"]
    /\ data' = [t \in 1..N |-> <<>>]
    /\ mapCalls' = [w \in 1..N |-> 0]
    /\ written' = [w \in 1..N |-> {}]
    /\ UNCHANGED <<config, listing, worker_class, workers, outcome, reduceLog,
                   reduceRet>>

\* One turn of the loop  for thread in threads: thread.start()
StartThread ==
    /\ pc = "start"
    /\ i <= N
    /\ MayStart(i)
    /\ tstate' = [tstate EXCEPT ![i] = "started"]
    /\ i' = i + 1
    /\ UNCHANGED <<config, listing, worker_class, workers, pc, data, outcome,
                   mapCalls, written, reduceLog,
                   reduceRet>>

StartDone ==
    /\ pc = "start"
    /\ i > N
    /\ pc' = "join"
    /\ i' = JoinFrom
    /\ UNCHANGED <<config, listing, worker_class, workers, tstate, data,
                   outcome, mapCalls, written, reduceLog,
                   reduceRet>>

\* Thread t enters map of its worker and reads the input.
MapRead(t) ==
    /\ tstate[t] = "started"
    /\ mapCalls' = [mapCalls EXCEPT ![Target(t)] = @ + 1]
    /\ LET entry == listing[workers[Target(t)].input_data]
           how == ReadOutcome(entry)
       IN  /\ tstate' = CASE how = "ok" -> [tstate EXCEPT ![t] = "read"]
                           [] how = "blocks" -> [tstate EXCEPT ![t] = "blocked"]
                           [] OTHER -> ThreadsAfterRaise(tstate, t)
           /\ data' = [data EXCEPT ![t] = entry.content]
    /\ UNCHANGED <<config, listing, worker_class, workers, pc, i, outcome,
                   written, reduceLog,
                   reduceRet>>

\* Thread t stores the count into self.result and ends.
MapWrite(t) ==
    /\ tstate[t] = "read"
    /\ workers' = [workers EXCEPT ![Target(t)].result = MapStore(@, CountNewlines(data[t]))]
    /\ written' = [written EXCEPT ![Target(t)] = @ \cup {t}]
    /\ tstate' = [tstate EXCEPT ![t] = "done"]
    /\ UNCHANGED <<config, listing, worker_class, pc, i, data, outcome,
                   mapCalls, reduceLog,
                   reduceRet>>

\* One turn of the loop  for thread in threads: thread.join()
JoinThread ==
    /\ pc = "join"
    /\ i <= N
    /\ Terminated(i)
    /\ i' = i + 1
    /\ UNCHANGED <<config, listing, worker_class, workers, pc, tstate, data,
                   outcome, mapCalls, written, reduceLog,
                   reduceRet>>

JoinDone ==
    /\ pc = "join"
    /\ i > N
    /\ pc' = "unpack"
    /\ UNCHANGED <<config, listing, worker_class, workers, i, tstate, data,
                   outcome, mapCalls, written, reduceLog,
                   reduceRet>>

\* first, *rest = workers
Unpack ==
    /\ pc = "unpack"
    /\ IF N = 0
       THEN /\ pc' = "done"
            /\ outcome' = EmptyOutcome
            /\ i' = i
       ELSE /\ pc' = "reduce"
            /\ outcome' = outcome
            /\ i' = 2
    /\ UNCHANGED <<config, listing, worker_class, workers, tstate, data,
                   mapCalls, written, reduceLog,
                   reduceRet>>

\* One turn of the loop  for worker in rest: first.reduce(worker)
Reduce ==
    /\ pc = "reduce"
    /\ i <= N
    /\ reduceLog' = Append(reduceLog, <<1, i>>)
    /\ IF workers[1].result.some /\ workers[i].result.some
       THEN /\ workers' = ReduceEffect(worker_class, workers, 1, i)
            /\ reduceRet' = workers'[1].result
            /\ i' = i + 1
            /\ UNCHANGED <<pc, outcome>>
       ELSE /\ pc' = "done"
            /\ outcome' = Raise("TypeError")
            /\ UNCHANGED <<workers, i, reduceRet>>
    /\ UNCHANGED <<config, listing, worker_class, tstate, data, mapCalls, written>>

\* return first.result
ReturnResult ==
    /\ pc = "reduce"
    /\ i > N
    /\ pc' = "done"
    /\ outcome' = MapreduceReturn(Return(workers[1].result))
    /\ UNCHANGED <<config, listing, worker_class, workers, i, tstate, data,
                   mapCalls, written, reduceLog,
                   reduceRet>>

Next ==
    \/ ConfigError
    \/ CreateWorker
    \/ CreateDone
    \/ StartThread
    \/ StartDone
    \/ \E t \in DOMAIN tstate : MapRead(t)
    \/ \E t \in DOMAIN tstate : MapWrite(t)
    \/ JoinThread
    \/ JoinDone
    \/ Unpack
    \/ Reduce
    \/ ReturnResult

Spec == Init /\ [][Next]_vars

\* The calls whose scheduling is examined: those over files of two
\* contents, the line without a separator and the file of three lines.
FairInit ==
    /\ Init
    /\ \A k \in DOMAIN listing :
           listing[k].kind = "file"
               => listing[k].content
                      \in {<<"a">>, <<"a", "\n", "a", "\n", "a", "\n">>}

\* The scheduler does not stop while some thread can take a step.  (This
\* asks less than fairness to each thread, which the interpreter's switching
\* between runnable threads gives.)
FairSpec == FairInit /\ [][Next]_vars /\ WF_vars(Next)

----------------------------------------------------------------------------
\* A caller that builds workers itself and calls map and reduce on them in
\* its own thread, one call after the other, as the tests do.

\* The workers one reduce call involves: self and other.
ReduceArity == 2

\* The directories such a caller builds its workers over: one worker, or the
\* two of a reduce call.
DirectListings == {l \in Listings : 1 <= Len(l) /\ Len(l) <= ReduceArity}

\* The number of calls made so far.
CallsMade ==
    LET RECURSIVE Sum(_)
        Sum(n) == IF n = 0 THEN 0 ELSE Sum(n - 1) + mapCalls[n]
    IN  Sum(Len(mapCalls)) + Len(reduceLog)

InitDirect ==
    /\ config = {"data_dir"}
    /\ listing \in DirectListings
    /\ worker_class = "LineCountWorker"
    /\ workers = CreateWorkersList(listing)
    /\ pc = "direct"
    /\ i = 1
    /\ tstate = <<>>
    /\ data = <<>>
    /\ outcome = Running
    /\ mapCalls = [w \in 1..Len(listing) |-> 0]
    /\ written = [w \in 1..Len(listing) |-> {}]
    /\ reduceLog = <<>>
    /\ reduceRet = None

\* workers[w].map() called by the caller itself: the read and the store; an
\* exception of the read reaches the caller and leaves result as it was; a
\* read that never returns leaves the caller in it.
DirectMap(w) ==
    /\ pc = "direct"
    /\ CallsMade < MaxCalls
    /\ mapCalls' = [mapCalls EXCEPT ![w] = @ + 1]
    /\ LET entry == listing[workers[w].input_data]
           how == ReadOutcome(entry)
       IN  CASE how = "ok" ->
                  /\ workers' = [workers EXCEPT
                                    ![w].result = MapStore(@, CountNewlines(entry.content))]
                  /\ outcome' = Return(None)
                  /\ pc' = pc
             [] how = "blocks" ->
                  /\ pc' = "blocked"
                  /\ UNCHANGED <<workers, outcome>>
             [] OTHER ->
                  /\ outcome' = Raise(how)
                  /\ UNCHANGED <<workers, pc>>
    /\ UNCHANGED <<config, listing, worker_class, i, tstate, data, written,
                   reduceLog, reduceRet>>

\* workers[a].reduce(workers[b]) called by the caller itself.
DirectReduce(a, b) ==
    /\ pc = "direct"
    /\ CallsMade < MaxCalls
    /\ reduceLog' = Append(reduceLog, <<a, b>>)
    /\ IF workers[a].result.some /\ workers[b].result.some
       THEN /\ workers' = ReduceEffect(worker_class, workers, a, b)
            /\ reduceRet' = workers'[a].result
            /\ outcome' = Return(reduceRet')
       ELSE /\ outcome' = Raise("TypeError")
            /\ UNCHANGED <<workers, reduceRet>>
    /\ UNCHANGED <<config, listing, worker_class, pc, i, tstate, data,
                   mapCalls, written>>

NextDirect ==
    \/ \E w \in 1..N : DirectMap(w)
    \/ \E a, b \in 1..N : a # b /\ DirectReduce(a, b)

SpecDirect == InitDirect /\ [][NextDirect]_vars

----------------------------------------------------------------------------
\* The pure view of execute, used to state what a run must return.

\* The result slot of a worker after its map: the count for a file that was
\* read, None when the read raised and the thread ended without the store.
MapResult(entry) ==
    IF ReadOutcome(entry) = "ok" THEN Some(CountNewlines(entry.content)) ELSE None

RECURSIVE FoldFrom(_, _, _, _)
\* The loop  for worker in rest: first.reduce(worker)  from the k-th result
\* on, with acc the accumulator's result; then return first.result.
FoldFrom(cls, acc, rs, k) ==
    IF k > Len(rs) THEN Return(acc)
    ELSE IF acc.some /\ rs[k].some
         THEN FoldFrom(cls, ReduceStep(cls, acc, rs[k]), rs, k + 1)
         ELSE Raise("TypeError")

\* execute on workers whose maps left the results rs, all threads joined.
FoldOutcome(cls, rs) ==
    IF Len(rs) = 0 THEN EmptyOutcome ELSE FoldFrom(cls, rs[1], rs, 2)

RECURSIVE FoldCalls(_, _)
\* The reduce calls of that loop, as <<accumulator, argument>>: one per
\* worker of rest, up to and with the first call that raises.
FoldCalls(rs, k) ==
    IF k > Len(rs) THEN <<>>
    ELSE IF rs[1].some /\ rs[k].some
         THEN <<(<<1, k>>)>> \o FoldCalls(rs, k + 1)
         ELSE <<(<<1, k>>)>>

\* execute as a function of the list of workers it is given: the results of
\* the maps, and the fold over them.
ExecuteOutcome(cls, ws) ==
    FoldOutcome(cls, [k \in 1..Len(ws) |-> MapResult(listing[ws[k].input_data])])

----------------------------------------------------------------------------
\* Vocabulary of the properties.

\* The main thread is past the join loop.
PastBarrier == pc \in {"unpack", "reduce", "done"} /\ "data_dir" \in config

\* The number of line separators of a content.
Separators(content) == Cardinality({k \in DOMAIN content : content[k] = "\n"})

\* Every entry of the listing is a readable regular file.
AllFiles == \A k \in DOMAIN listing : listing[k].kind = "file"

\* execute has ended on a non-empty collection.
ExecuteEnded == pc = "done" /\ "data_dir" \in config /\ N >= 1

RECURSIVE SumSeparators(_)
\* c1 + ... + cn for the first n entries of the listing.
SumSeparators(n) ==
    IF n = 0 THEN 0 ELSE SumSeparators(n - 1) + Separators(listing[n].content)

\* The permutations of 1..n.
Perms(n) == {f \in [1..n -> 1..n] : \A a, b \in 1..n : f[a] = f[b] => a = b}

RECURSIVE LeftFold(_, _, _)
\* op(...op(op(r1, r2), r3)..., rn) over the separator counts of the listing.
LeftFold(cls, rs, n) ==
    IF n = 1 THEN rs[1] ELSE Op(cls, LeftFold(cls, rs, n - 1), rs[n])

\* The result slots a live map thread may still touch.
ThreadSlots(t) ==
    IF tstate[t] \in {"started", "read", "blocked"} THEN {Target(t)} ELSE {}

\* The result slots the main thread touches where it is.
MainSlots ==
    IF pc = "reduce" THEN (IF i <= N THEN {1, i} ELSE {1}) ELSE {}

----------------------------------------------------------------------------
\* C1: whenever the main thread is past the join loop (it unpacks, reduces,
\* reads a result or has ended), every map thread has ended: none is
\* unstarted, running or blocked.
C1_BarrierBeforeReduce ==
    (PastBarrier \/ reduceLog # <<>>)
        => \A t \in DOMAIN tstate : tstate[t] \in {"done", "failed"}

\* C1 witness: a reduce is in progress over three workers.
C1_Witness == pc = "reduce" /\ N = 3 /\ i = 3 /\ Len(reduceLog) = 1

\* C2: no worker's map is ever invoked twice, and once the main thread is
\* past the join loop, so before any reduce call, every worker's map has been
\* invoked exactly once.
C2_MapExactlyOnce ==
    /\ \A w \in DOMAIN mapCalls : mapCalls[w] <= 1
    /\ (PastBarrier \/ reduceLog # <<>>)
           => \A w \in DOMAIN mapCalls : mapCalls[w] = 1

\* C2 witness: the first reduce call of a run over three workers is about to
\* be made, each map having been invoked once.
C2_Witness ==
    /\ pc = "reduce" /\ N = 3 /\ i = 2 /\ reduceLog = <<>>
    /\ \A w \in 1..N : mapCalls[w] = 1

\* C3: with LineCountWorker over N >= 1 readable files holding c1..cN line
\* separators, execute returns c1 + ... + cN.
C3_LineCountSum ==
    (ExecuteEnded /\ worker_class = "LineCountWorker" /\ AllFiles)
        => outcome = Return(Some(SumSeparators(N)))

\* C3 witness: files of 3, 2 and 4 lines gave 9.
C3_Witness ==
    /\ ExecuteEnded /\ worker_class = "LineCountWorker" /\ N = 3
    /\ Separators(listing[1].content) = 3
    /\ Separators(listing[2].content) = 2
    /\ Separators(listing[3].content) = 4
    /\ outcome = Return(Some(9))

\* C4: when the read of some worker's input failed in the map phase, execute
\* ends by raising that I/O error and returns no value.
C4_ReadErrorSurfaces ==
    (ExecuteEnded /\ \E t \in DOMAIN tstate : tstate[t] = "failed")
        => /\ outcome.kind = "raise"
           /\ outcome.err \in {"FileNotFoundError", "IsADirectoryError"}

\* C5: execute on an empty worker collection ends by raising the error of the
\* accumulator selection; it returns nothing and raises no other error.
C5_EmptyInputError ==
    (pc = "done" /\ "data_dir" \in config /\ N = 0)
        => outcome = Raise("ValueError")

\* C5 witness: mapreduce over an empty directory has ended.
C5_Witness ==
    /\ pc = "done" /\ "data_dir" \in config /\ listing = <<>>
    /\ outcome.kind = "raise"


\* C6: over a directory of regular files and subdirectories, the enumeration
\* yields exactly one input source per regular file and none for a
\* subdirectory.
C6_OnlyRegularFiles ==
    (/\ pc # "create"
     /\ "data_dir" \in config
     /\ \A k \in DOMAIN listing : listing[k].kind \in {"file", "dir"})
        => /\ N = Cardinality({k \in DOMAIN listing : listing[k].kind = "file"})
           /\ \A w \in 1..N : listing[workers[w].input_data].kind = "file"

\* C7: with LineCountWorker, the way execute ends on a non-empty collection is
\* the way it ends on every permutation of the same workers.
C7_OrderIndependent ==
    (ExecuteEnded /\ worker_class = "LineCountWorker")
        => \A p \in Perms(N) :
               outcome = FoldOutcome(worker_class,
                                     [k \in 1..N |-> MapResult(listing[p[k]])])

\* C7 witness: a run over three files of different counts has returned.
C7_Witness ==
    /\ ExecuteEnded /\ worker_class = "LineCountWorker" /\ N = 3 /\ AllFiles
    /\ Separators(listing[1].content) = 0
    /\ Separators(listing[2].content) = 4
    /\ Separators(listing[3].content) = 2
    /\ outcome.kind = "return"

\* C8: for either reduce operation, when every map succeeded with partial
\* results r1..rN, execute returns op(...op(op(r1, r2), r3)..., rN) in
\* collection order, whatever the order the threads ended in.
C8_LeftFoldInOrder ==
    (ExecuteEnded /\ AllFiles)
        => outcome = Return(Some(LeftFold(worker_class,
                                [k \in 1..N |-> Separators(listing[k].content)], N)))

\* C8 witness: subtraction over 2, 3, 4 gave (2 - 3) - 4, which no other
\* bracketing or order gives.
C8_Witness ==
    /\ ExecuteEnded /\ worker_class = "DiffWorker" /\ N = 3
    /\ Separators(listing[1].content) = 2
    /\ Separators(listing[2].content) = 3
    /\ Separators(listing[3].content) = 4
    /\ outcome = Return(Some(0 - 5))

\* C9: in the map phase a worker's result is stored only by the thread of its
\* own map, and no two tasks (map threads, main thread) that are live at the
\* same time touch the same result slot.
C9_NoSharedSlot ==
    /\ \A w \in DOMAIN written : written[w] \subseteq {w}
    /\ \A t1, t2 \in DOMAIN tstate :
           t1 # t2 => ThreadSlots(t1) \cap ThreadSlots(t2) = {}
    /\ \A t \in DOMAIN tstate : ThreadSlots(t) \cap MainSlots = {}

\* C9 witness: the threads of workers 1 and 2 are both about to store while
\* the thread of worker 3 has made its store.
C9_Witness ==
    /\ Len(tstate) = 3
    /\ tstate[1] = "read" /\ tstate[2] = "read" /\ tstate[3] = "done"
    /\ written[3] = {3}

C11_ConfigErrorFirst ==
    "data_dir" \notin config
        => /\ workers = <<>>
           /\ tstate = <<>>
           /\ mapCalls = <<>>
           /\ reduceLog = <<>>
           /\ pc \in {"create", "done"}
           /\ pc = "done" => outcome = Raise("KeyError")

\* C11 witness: the call on a config without data_dir has ended by raising.
C11_Witness ==
    "data_dir" \notin config /\ pc = "done" /\ outcome.kind = "raise"

\* C12: when create_workers has returned, there is one worker per name of
\* the listing, the w-th bound to the w-th name, no two to the same; and as
\* long as no thread has been started every result is unset, no map has been
\* invoked and no reduce called.
C12_OneWorkerPerInput ==
    /\ (pc # "create" /\ "data_dir" \in config)
           => /\ N = Len(listing)
              /\ \A w \in 1..N : workers[w].input_data = w
              /\ \A v, w \in 1..N :
                     workers[v].input_data = workers[w].input_data => v = w
    /\ (pc = "create" \/ (pc = "start" /\ i = 1))
           => /\ \A w \in 1..N : workers[w].result = None
              /\ \A w \in DOMAIN mapCalls : mapCalls[w] = 0
              /\ \A t \in DOMAIN tstate : tstate[t] = "new"
              /\ reduceLog = <<>>

\* C12 witness: create_workers has just returned three workers over three
\* entries, none of them mapped.
C12_Witness ==
    /\ pc = "start" /\ i = 1 /\ Len(listing) = 3 /\ N = 3
    /\ \A w \in 1..N : workers[w].input_data = w /\ workers[w].result = None

\* C13: a call of mapreduce that has ended has ended the way
\* execute(create_workers(...)) ends on the same config and directory: the
\* enumeration's error without data_dir, otherwise the value or error of
\* execute on the created list; with the same calls, one map per worker and
\* the reduce calls of the fold, and nothing else.
C13_MapreduceIsComposition ==
    pc = "done"
        => IF "data_dir" \notin config
           THEN outcome = Raise("KeyError") /\ mapCalls = <<>> /\ reduceLog = <<>>
           ELSE /\ workers = [w \in 1..N |->
                                 [CreateWorkersList(listing)[w] EXCEPT
                                      !.result = workers[w].result]]
                /\ outcome = ExecuteOutcome(worker_class, CreateWorkersList(listing))
                /\ \A w \in 1..N : mapCalls[w] = 1
                /\ reduceLog = (IF N = 0 THEN <<>>
                                ELSE FoldCalls([k \in 1..N |-> MapResult(listing[k])], 2))

\* C13 witness: mapreduce over three files has returned a value after two
\* reduce calls.
C13_Witness ==
    /\ pc = "done" /\ N = 3 /\ AllFiles
    /\ outcome.kind = "return" /\ outcome.val.some
    /\ Len(reduceLog) = 2

\* C14: every call of map on a worker whose input has not changed leaves the
\* same result: the count of the content when the read succeeds, whatever
\* result held before (the result of an earlier map, or of reduce calls
\* since), and the result as it was when the read raises; so a second call
\* with no reduce in between changes nothing.
C14_MapIdempotent ==
    [][\A w \in 1..N :
           mapCalls'[w] = mapCalls[w] + 1
               => /\ listing[w].kind = "file"
                      => workers'[w].result = Some(Separators(listing[w].content))
                  /\ listing[w].kind # "file"
                      => workers'[w].result = workers[w].result
                  /\ (mapCalls[w] >= 1 /\ reduceLog = <<>>)
                      => workers'[w].result = workers[w].result]_vars

\* C14 witness: map was called twice on worker 1, a file of three lines, with
\* a reduce of a non-zero count in between, and its result is three again.
C14_Witness ==
    /\ pc = "direct" /\ mapCalls = <<2, 1>> /\ reduceLog = <<(<<1, 2>>)>>
    /\ N = 2 /\ Separators(listing[1].content) = 3
    /\ workers[2].result.some /\ workers[2].result.v > 0
    /\ workers[1].result = Some(3)

\* C15: when execute has ended on N >= 1 workers, reduce has been called
\* exactly N - 1 times, each time on the first worker, with the 2nd, 3rd, ...,
\* N-th worker as argument in that order; for N = 1 no reduce was called and
\* the first worker's result was returned.
C15_ReduceCalls ==
    ExecuteEnded
        => /\ reduceLog = [k \in 1..(N - 1) |-> <<1, k + 1>>]
           /\ N = 1 => outcome = Return(workers[1].result)

\* C16: execute starts every map thread before it waits for any: while a
\* thread is left to start, the start of the next one is enabled whatever the
\* threads started before are doing, and a thread not yet started is found
\* only in the start loop, ahead of it.  So all N map tasks can be in
\* progress at once (the witness).
C16_AllStartedBeforeWait ==
    /\ (pc = "start" /\ i <= N) => ENABLED StartThread
    /\ \A t \in DOMAIN tstate : tstate[t] = "new" => (pc = "start" /\ t >= i)

\* C16 witness: the three map tasks of three workers are in progress at the
\* same time, none ended, with the main thread waiting at the first join.
C16_Witness ==
    /\ Len(tstate) = 3 /\ pc = "join" /\ i = 1
    /\ \A t \in 1..3 : tstate[t] \in {"started", "read"}
    /\ \A w \in 1..3 : workers[w].result = None

\* C18: under fair scheduling, when no read blocks for ever (every map task
\* ends, normally or by failing), mapreduce on a finite listing ends in the
\* end, by a value or an error: it is not left waiting in the join loop or
\* turning in the fold.
C18_Terminates ==
    (\A k \in DOMAIN listing : listing[k].kind # "fifo") ~> (pc = "done")

\* C18 witness: a call over three workers of which one map failed has ended.
C18_Witness ==
    /\ pc = "done" /\ Len(tstate) = 3
    /\ tstate[2] = "failed" /\ tstate[1] = "done" /\ tstate[3] = "done"
    /\ outcome.kind # "running"

\* C17: the failure of one map task touches no other: a thread whose own
\* input is a readable file never ends by an exception and is never held
\* back (its next step is enabled while it runs), once ended it has left in
\* its own worker's result the count of its own input, and, under fair
\* scheduling, it does end.
C17_FailureIsolated ==
    /\ [](\A t \in DOMAIN tstate :
              listing[t].kind = "file"
                  => /\ tstate[t] \in {"new", "started", "read", "done"}
                     /\ tstate[t] = "started" => ENABLED MapRead(t)
                     /\ tstate[t] = "read" => ENABLED MapWrite(t)
                     /\ (tstate[t] = "done" /\ (t # 1 \/ reduceLog = <<>>))
                            => workers[t].result
                                   = Some(Separators(listing[t].content)))
    /\ \A t \in 1..MaxEntries :
           (IF t \in DOMAIN tstate
            THEN /\ listing[t].kind = "file"
                 /\ \E u \in DOMAIN tstate : tstate[u] = "failed"
            ELSE FALSE)
               ~> (IF t \in DOMAIN tstate THEN tstate[t] = "done" ELSE FALSE)

\* C17 witness: the map task of worker 2 has failed before the others were
\* done, and the tasks of workers 1 and 3 have ended with their own counts.
C17_Witness ==
    /\ Len(tstate) = 3 /\ pc = "join"
    /\ tstate[2] = "failed" /\ tstate[1] = "done" /\ tstate[3] = "done"
    /\ workers[1].result = Some(Separators(listing[1].content))
    /\ workers[3].result = Some(Separators(listing[3].content))
    /\ workers[2].result = None

\* C19: from the barrier on, through every reduce call and at the return,
\* each worker other than the first holds the result its own map left (the
\* count of its input, or nothing when its read failed); what a reduce call
\* returned is the result stored in the accumulator; and what execute
\* returns is the first worker's result.
C19_ReduceFrame ==
    /\ PastBarrier
           => \A w \in 2..N :
                  workers[w].result
                      = (IF listing[w].kind = "file"
                         THEN Some(Separators(listing[w].content))
                         ELSE None)
    /\ reduceRet.some => reduceRet = workers[1].result
    /\ outcome.kind = "return" => outcome.val = workers[1].result

\* C19 witness: execute has returned after two reduce calls over three files
\* with lines; workers 2 and 3 still hold their own counts and the first
\* holds the total that the last reduce returned.
C19_Witness ==
    /\ ExecuteEnded /\ N = 3 /\ AllFiles /\ Len(reduceLog) = 2
    /\ worker_class = "LineCountWorker"
    /\ workers[2].result = Some(2) /\ workers[3].result = Some(4)
    /\ workers[1].result = Some(9)
    /\ reduceRet = Some(9) /\ outcome = Return(Some(9))

============================================================================
